---------------------------- MODULE Spec2Model ----------------------------
(***************************************************************************)
(* TriLingua Lexicon: the App component's session state machine and its    *)
(* history store (src/unnamed/part_000, the App component), with the       *)
(* backend client it calls (src/services/geminiService.ts).                *)
(*                                                                         *)
(* Spec is the App component's session; FairSpec is the session with every *)
(* backend call resolving; SpecExport is the CSV export of a history;      *)
(* SpecService is the backend client called directly.                      *)
(*                                                                         *)
(* Strings are sequences of character codes; code 0 stands for a white     *)
(* space character, every other code for a non-space character.  A value   *)
(* that may be null/undefined is a sequence of length 0 (absent) or 1.     *)
(***************************************************************************)
EXTENDS Integers, Sequences, FiniteSets, TLC

VARIABLES
    mounted,        \* the mount effects of App have run
    blob,           \* localStorage entry "trilingua_history"
    query,          \* useState query
    currentData,    \* useState currentData (WordData | null)
    currentImage,   \* useState currentImage (string | undefined)
    loadingState,   \* useState loadingState
    error,          \* useState error (string | null)
    history,        \* useState history (HistoryItem[])
    chains,         \* the invocations of handleSearch, by submission number
    now,            \* the last reading of Date.now()
    lastOp,         \* the kind of operation that made the last step
    apiKey,         \* process.env.API_KEY is set
    call,           \* the last direct call of geminiService, as its caller saw it
    csv             \* the content of the last CSV download

vars == <<mounted, blob, query, currentData, currentImage, loadingState,
          error, history, chains, now, lastOp, apiKey, call, csv>>

\* what the App component's handlers leave alone
outside == <<apiKey, call, csv>>

session == <<query, currentData, currentImage, loadingState, error>>

-----------------------------------------------------------------------------
(* Bounds of the model *)

MaxSubmits == 2

Sids == 1..MaxSubmits

-----------------------------------------------------------------------------
(* Values *)

None == <<>>
Some(x) == <<x>>

HistoryCap == 50

ErrorMessage == "Unable to analyze the word. Please check your API key or try again."

LoadingState == {"IDLE", "ANALYZING", "GENERATING_IMAGE", "COMPLETE", "ERROR"}

WhiteSpace == {0}

\* String.prototype.trim
RECURSIVE TrimStart(_)
TrimStart(s) ==
    IF s = <<>> THEN s
    ELSE IF Head(s) \in WhiteSpace THEN TrimStart(Tail(s)) ELSE s

RECURSIVE TrimEnd(_)
TrimEnd(s) ==
    IF s = <<>> THEN s
    ELSE IF s[Len(s)] \in WhiteSpace THEN TrimEnd(SubSeq(s, 1, Len(s) - 1)) ELSE s

TrimNothing(s) == s

Trim(s) == TrimEnd(TrimStart(s))

\* what the user types into the search field
TypedQueries == {<<0>>, <<0, 7, 0>>}

Word(n) == <<n>>

\* the WordData values the backend answers with: a record that shares only
\* its coreWord.jp with stored item 1 and only its coreWord.en with stored
\* item 2, and a record that shares nothing with a stored item
BackendWords ==
    {[jp |-> Word(1), en |-> Word(2)],
     [jp |-> Word(101), en |-> Word(101)]}

\* the fields the response schema of analyzeWord requires
Required ==
    {"coreWord", "pronunciation", "definitions", "examples", "etymology", "related"}

\* a record with every field of the schema; the fields the App component
\* never reads are left empty
FullRecord(inputWord, coreWord) ==
    [inputWord     |-> inputWord,
     coreWord      |-> coreWord,
     pronunciation |-> <<>>,
     definitions   |-> <<>>,
     examples      |-> <<>>,
     etymology     |-> <<>>,
     related       |-> <<>>]

WordData == {FullRecord(<<0, 7, 0>>, w) : w \in BackendWords}

\* the JSON objects analyzeWord can parse out of a response: a WordData, and
\* an object with an inputWord and none of the required fields
Payloads == WordData \cup {[inputWord |-> <<0, 7, 0>>]}

\* a data URI returned by generateImage for submission c
DataUri(c) == [origin |-> "generated", n |-> c]

\* the history a previous session left in localStorage: k items, newest
\* first, item number m stored with timestamp m
StoredItem(m) ==
    [id        |-> m,
     timestamp |-> m,
     word      |-> Word(m),
     data      |-> FullRecord(IF m % 2 = 1 THEN Word(m) ELSE <<>>,
                               [jp |-> Word(m), en |-> Word(m)]),
     imageUrl  |-> IF m % 2 = 0 THEN Some([origin |-> "stored", n |-> m]) ELSE None]

Stored(k) == [i \in 1..k |-> StoredItem(k - i + 1)]

StoredLens == {0, HistoryCap}

Absent == [kind |-> "absent", items |-> <<>>]
Corrupt == [kind |-> "corrupt", items |-> <<>>]
Json(h) == [kind |-> "json", items |-> h]

\* an invocation of handleSearch: where it stands, the record it received,
\* and the invocations that were in flight with it
NoChain == [pc |-> "none", data |-> None, concurrent |-> {}]
Ended(pc) == [NoChain EXCEPT !.pc = pc]

InFlight(c) == chains[c].pc \in {"analyze", "image"}

Busy == loadingState \in {"ANALYZING", "GENERATING_IMAGE"}

-----------------------------------------------------------------------------
(* History insert: the updater passed to setHistory *)

KeepOnlyIfOneDiffers(item, data) ==
    \/ item.data.coreWord.jp # data.coreWord.jp
    \/ item.data.coreWord.en # data.coreWord.en

\* the callback of prev.filter: the items to keep
Keep(item, data) ==
    /\ item.data.coreWord.jp # data.coreWord.jp
    /\ item.data.coreWord.en # data.coreWord.en

RECURSIVE Filter(_, _)
Filter(prev, data) ==
    IF prev = <<>> THEN <<>>
    ELSE IF Keep(Head(prev), data)
         THEN <<Head(prev)>> \o Filter(Tail(prev), data)
         ELSE Filter(Tail(prev), data)

SliceNothing(s, n) == s

SliceOneLess(s, n) == SubSeq(s, 1, IF Len(s) < n - 1 THEN Len(s) ELSE n - 1)

\* Array.prototype.slice(0, n)
Slice(s, n) == SubSeq(s, 1, IF Len(s) < n THEN Len(s) ELSE n)

PrependAtEnd(newItem, filtered) == filtered \o <<newItem>>

\* [newItem, ...filtered]
Prepend(newItem, filtered) == <<newItem>> \o filtered

InsertItem(prev, newItem) ==
    Slice(Prepend(newItem, Filter(prev, newItem.data)), HistoryCap)

-----------------------------------------------------------------------------
Init ==
    /\ mounted = FALSE
    /\ blob \in {Absent, Corrupt} \cup {Json(Stored(k)) : k \in StoredLens}
    /\ query = <<>>
    /\ currentData = None
    /\ currentImage = None
    /\ loadingState = "IDLE"
    /\ error = None
    /\ history = <<>>
    /\ chains = [c \in Sids |-> NoChain]
    /\ now = HistoryCap
    /\ lastOp = "other"
    /\ apiKey \in BOOLEAN
    /\ call = None
    /\ csv = None

MountParseUncaught ==
    /\ ~mounted
    /\ mounted' = TRUE
    /\ history' = IF blob.kind = "json" THEN blob.items ELSE history
    /\ blob' = IF blob.kind = "corrupt" THEN blob ELSE Json(history')
    /\ error' = IF blob.kind = "corrupt" THEN Some("SyntaxError") ELSE error
    /\ loadingState' = IF blob.kind = "corrupt" THEN "ERROR" ELSE loadingState
    /\ lastOp' = blob.kind
    /\ UNCHANGED <<query, currentData, currentImage, chains, now, outside>>

\* The two mount effects: load the history (nothing saved: no setHistory; a
\* saved text that JSON.parse rejects: logged, no setHistory), then save it.
\* lastOp records what the load effect found.
Mount ==
    /\ ~mounted
    /\ mounted' = TRUE
    /\ history' = IF blob.kind = "json" THEN blob.items ELSE history
    /\ blob' = Json(history')
    /\ lastOp' = blob.kind
    /\ UNCHANGED <<session, chains, now, outside>>

\* onChange of the search field
SetQuery(q) ==
    /\ mounted
    /\ q # query
    /\ query' = q
    /\ lastOp' = "other"
    /\ UNCHANGED <<mounted, blob, currentData, currentImage, loadingState,
                   error, history, chains, now, outside>>

SubmitDisabledWhenBlank ==
    Trim(query) = <<>>

\* the disabled attribute of the Search button
SubmitDisabled ==
    \/ loadingState = "ANALYZING"
    \/ loadingState = "GENERATING_IMAGE"
    \/ Trim(query) = <<>>

NextSid == Cardinality({c \in Sids : chains[c].pc # "none"}) + 1

\* The user presses Enter in the field or clicks Search.  The browser
\* submits the form only while the Search button is enabled; handleSearch
\* then runs up to its first await: the guard, the four resets and the call
\* of geminiService.analyzeWord(query).  A submit that the button or the
\* guard stops changes nothing: Submit is then not enabled.
Submit ==
    /\ mounted
    /\ ~SubmitDisabled
    /\ Trim(query) # <<>>
    /\ NextSid \in Sids
    /\ loadingState' = "ANALYZING"
    /\ error' = None
    /\ currentData' = None
    /\ currentImage' = None
    /\ chains' = [c \in Sids |->
           IF c = NextSid
           THEN [pc |-> "analyze", data |-> None,
                 concurrent |-> {b \in Sids : InFlight(b)}]
           ELSE IF InFlight(c)
           THEN [chains[c] EXCEPT !.concurrent = @ \cup {NextSid}]
           ELSE chains[c]]
    /\ lastOp' = "other"
    /\ UNCHANGED <<mounted, blob, query, history, now, outside>>

\* what geminiService.analyzeWord(query) settles with
AnalysisOutcomes ==
    IF ~apiKey
    THEN {[ok |-> FALSE, why |-> "noApiKey", data |-> None]}
    ELSE {[ok |-> FALSE, why |-> w, data |-> None] :
             w \in {"requestFailed", "noText", "badJson"}}
         \cup {[ok |-> TRUE, why |-> "parsed", data |-> Some(d)] : d \in Payloads}

\* handleSearch resumes after analyzeWord: on success lines 47-51 (up to the
\* call of generateImage), on failure the catch block
AnalysisSettledOk(c, o) ==
    /\ currentData' = o.data
    /\ loadingState' = "GENERATING_IMAGE"
    /\ chains' = [chains EXCEPT ![c].pc = "image", ![c].data = o.data]
    /\ UNCHANGED <<query, currentImage, error>>

AnalysisSettledErrorKeepsState(c) ==
    /\ error' = Some(ErrorMessage)
    /\ chains' = [chains EXCEPT ![c] = Ended("failed")]
    /\ UNCHANGED <<query, currentData, currentImage, loadingState>>

AnalysisSettledError(c) ==
    /\ error' = Some(ErrorMessage)
    /\ loadingState' = "ERROR"
    /\ chains' = [chains EXCEPT ![c] = Ended("failed")]
    /\ UNCHANGED <<query, currentData, currentImage>>

AnalysisSettledThrowsUncaught(c, o) ==
    /\ currentData' = o.data
    /\ loadingState' = "GENERATING_IMAGE"
    /\ chains' = [chains EXCEPT ![c] = Ended("failed")]
    /\ UNCHANGED <<query, currentImage, error>>

\* analyzeWord returned an object with no coreWord: lines 47-48 run, the
\* argument of generateImage, data.coreWord.en, throws a TypeError, and the
\* catch block runs
AnalysisSettledThrows(c, o) ==
    /\ currentData' = o.data
    /\ error' = Some(ErrorMessage)
    /\ loadingState' = "ERROR"
    /\ chains' = [chains EXCEPT ![c] = Ended("failed")]
    /\ UNCHANGED <<query, currentImage>>

AnalysisSettles(c) ==
    /\ chains[c].pc = "analyze"
    /\ \E o \in AnalysisOutcomes :
          IF ~o.ok THEN AnalysisSettledError(c)
          ELSE IF "coreWord" \in DOMAIN o.data[1] THEN AnalysisSettledOk(c, o)
          ELSE AnalysisSettledThrows(c, o)
    /\ lastOp' = "other"
    /\ UNCHANGED <<mounted, blob, history, now, outside>>

\* geminiService.generateImage: a data URI when the response carries inline
\* data, null when it carries none or when the request throws
generateImage(c, outcome) ==
    IF outcome = "inlineData" THEN Some(DataUri(c)) ELSE None

ImageOutcomes == {"inlineData", "noInlineData", "throws"}

NewItem(t1, t2, data, image) ==
    [id        |-> t1,
     timestamp |-> t2,
     word      |-> data.coreWord.jp,
     data      |-> data,
     imageUrl  |-> image]

\* The readings Date.now() can return: a later millisecond, or the
\* millisecond of the last reading when that reading was made by the step
\* just before this one (two continuations run back to back).  The id and
\* the timestamp of an item are read in the same millisecond.
DateNow == IF lastOp = "image" THEN {now, now + 1} ELSE {now + 1}

\* handleSearch resumes after generateImage: lines 52-72, and the save effect
ImageSettles(c) ==
    /\ chains[c].pc = "image"
    /\ \E outcome \in ImageOutcomes, t1 \in DateNow :
          LET image == generateImage(c, outcome)
              t2    == t1
              data  == chains[c].data[1]
          IN /\ currentImage' = IF image # None THEN image ELSE currentImage
             /\ loadingState' = "COMPLETE"
             /\ history' = InsertItem(history, NewItem(t1, t2, data, image))
             /\ blob' = Json(history')
             /\ now' = t2
             /\ chains' = [chains EXCEPT ![c] = Ended("done")]
    /\ lastOp' = "image"
    /\ UNCHANGED <<mounted, query, currentData, error, outside>>

Or(a, b) == IF a # <<>> THEN a ELSE b

loadFromHistoryKeepsImage(item) ==
    /\ currentData' = Some(item.data)
    /\ query' = Or(item.data.inputWord, item.data.coreWord.jp)
    /\ loadingState' = "COMPLETE"
    /\ UNCHANGED <<error, currentImage>>

\* loadFromHistory, the sidebar's onSelect
loadFromHistory(item) ==
    /\ currentData' = Some(item.data)
    /\ currentImage' = item.imageUrl
    /\ query' = Or(item.data.inputWord, item.data.coreWord.jp)
    /\ loadingState' = "COMPLETE"
    /\ UNCHANGED error

\* the sidebar entry the user clicks: the newest
Selectable == {i \in 1..Len(history) : i = 1}

SelectHistory ==
    /\ mounted
    /\ \E i \in Selectable : loadFromHistory(history[i])
    /\ lastOp' = "select"
    /\ UNCHANGED <<mounted, blob, history, chains, now, outside>>

Next ==
    \/ Mount
    \/ \E q \in TypedQueries : SetQuery(q)
    \/ Submit
    \/ \E c \in Sids : AnalysisSettles(c)
    \/ \E c \in Sids : ImageSettles(c)
    \/ SelectHistory

Spec == Init /\ [][Next]_vars

\* every backend call that was issued resolves: the continuation of
\* handleSearch after each await runs
Resolves ==
    \A c \in Sids : WF_vars(AnalysisSettles(c)) /\ WF_vars(ImageSettles(c))

\* the length of the stored history in the sessions checked for progress
LiveStoredLen == 2

\* as Init, with nothing stored or a short stored history
InitLive ==
    /\ mounted = FALSE
    /\ blob \in {Absent, Json(Stored(LiveStoredLen))}
    /\ query = <<>>
    /\ currentData = None
    /\ currentImage = None
    /\ loadingState = "IDLE"
    /\ error = None
    /\ history = <<>>
    /\ chains = [c \in Sids |-> NoChain]
    /\ now = HistoryCap
    /\ lastOp = "other"
    /\ apiKey \in BOOLEAN
    /\ call = None
    /\ csv = None

FairSpec == InitLive /\ [][Next]_vars /\ Resolves

-----------------------------------------------------------------------------
(* exportHistory: the CSV download.  Texts are sequences of character      *)
(* codes (Unicode code points).                                            *)

MaxFieldLen == 2

Quote == 34
Comma == 44
LineFeed == 10

\* the characters of the exported texts: a letter, a comma, a double quote
ExportChars == {97, Comma, Quote}

ExportStrings == UNION {[1..k -> ExportChars] : k \in 0..MaxFieldLen}

Plain == <<97>>

\* a WordData whose k-th CSV column holds the text s
ExportData(k, s) ==
    [inputWord     |-> IF k = 2 THEN s ELSE Plain,
     coreWord      |-> [jp |-> IF k = 3 THEN s ELSE Plain,
                        en |-> IF k = 4 THEN s ELSE Plain,
                        zh |-> IF k = 5 THEN s ELSE Plain],
     pronunciation |-> [jp |-> IF k = 6 THEN s ELSE Plain,
                        en |-> IF k = 7 THEN s ELSE Plain,
                        zh |-> Plain],
     definitions   |-> [jp |-> IF k = 8 THEN s ELSE Plain,
                        jp_furigana |-> Plain,
                        en |-> IF k = 9 THEN s ELSE Plain,
                        zh |-> Plain],
     examples      |-> <<>>,
     etymology     |-> Plain,
     related       |-> [synonyms |-> <<>>, antonyms |-> <<>>]]

ExportItem(t, k, s) ==
    [id        |-> t,
     timestamp |-> t,
     word      |-> ExportData(k, s).coreWord.jp,
     data      |-> ExportData(k, s),
     imageUrl  |-> None]

\* the histories exported: the empty one, every history of one item with
\* one column drawn from ExportStrings, and histories of two items
ExportHistories ==
    {<<>>}
    \cup {<<ExportItem(HistoryCap + 1, k, s)>> : k \in 2..9, s \in ExportStrings}
    \cup {<<ExportItem(HistoryCap + 2, 9, s), ExportItem(HistoryCap + 1, 8, s)>> :
              s \in ExportStrings}

\* the header row:
\*   Timestamp, Input, JP, EN, ZH, JP_Pron, EN_Pron, Definition_JP, Definition_EN
Headers ==
    <<<<84, 105, 109, 101, 115, 116, 97, 109, 112>>,
      <<73, 110, 112, 117, 116>>,
      <<74, 80>>,
      <<69, 78>>,
      <<90, 72>>,
      <<74, 80, 95, 80, 114, 111, 110>>,
      <<69, 78, 95, 80, 114, 111, 110>>,
      <<68, 101, 102, 105, 110, 105, 116, 105, 111, 110, 95, 74, 80>>,
      <<68, 101, 102, 105, 110, 105, 116, 105, 111, 110, 95, 69, 78>>>>

\* new Date(t).toISOString() for 0 <= t < 1000: "1970-01-01T00:00:00.tttZ"
ToISOString(t) ==
    <<49, 57, 55, 48, 45, 48, 49, 45, 48, 49, 84, 48, 48, 58, 48, 48, 58, 48, 48, 46>>
    \o <<48 + ((t \div 100) % 10), 48 + ((t \div 10) % 10), 48 + (t % 10), 90>>

\* text.replace(/"/g, '""')
RECURSIVE ReplaceQuotes(_)
ReplaceQuotes(text) ==
    IF text = <<>> THEN <<>>
    ELSE (IF Head(text) = Quote THEN <<Quote, Quote>> ELSE <<Head(text)>>)
         \o ReplaceQuotes(Tail(text))

\* `"${text.replace(/"/g, '""')}"`
Quoted(text) == <<Quote>> \o ReplaceQuotes(text) \o <<Quote>>

\* Array.prototype.join
RECURSIVE Join(_, _)
Join(parts, sep) ==
    IF parts = <<>> THEN <<>>
    ELSE IF Len(parts) = 1 THEN parts[1]
    ELSE parts[1] \o sep \o Join(Tail(parts), sep)

\* the row of one history item
Row(h) ==
    <<ToISOString(h.timestamp),
      h.data.inputWord,
      h.data.coreWord.jp,
      h.data.coreWord.en,
      h.data.coreWord.zh,
      h.data.pronunciation.jp,
      h.data.pronunciation.en,
      Quoted(h.data.definitions.jp),
      Quoted(h.data.definitions.en)>>

CsvContent(hist) ==
    Join(<<Join(Headers, <<Comma>>)>>
         \o [i \in 1..Len(hist) |-> Join(Row(hist[i]), <<Comma>>)],
         <<LineFeed>>)

\* exportHistory, the sidebar's onExport: nothing happens for an empty
\* history; otherwise the CSV text is handed to the browser as a download
exportHistory ==
    /\ mounted
    /\ history # <<>>
    /\ csv' = Some(CsvContent(history))
    /\ lastOp' = "export"
    /\ UNCHANGED <<mounted, blob, session, history, chains, now, apiKey, call>>

\* the App component, mounted, with a history to export
InitExport ==
    /\ mounted = TRUE
    /\ history \in ExportHistories
    /\ blob = Json(history)
    /\ query = <<>>
    /\ currentData = None
    /\ currentImage = None
    /\ loadingState = "IDLE"
    /\ error = None
    /\ chains = [c \in Sids |-> NoChain]
    /\ now = HistoryCap + 2
    /\ lastOp = "other"
    /\ apiKey = TRUE
    /\ call = None
    /\ csv = None

NextExport == exportHistory

SpecExport == InitExport /\ [][NextExport]_vars

-----------------------------------------------------------------------------
(* geminiService, called directly: what the caller of each of its four     *)
(* operations sees, with and without process.env.API_KEY.                  *)

MaxTextLen == 3

Lt == 60
Gt == 62

ApiKeyMissing == "API Key is missing. Please set the API_KEY environment variable in your Vercel settings or .env file."

\* the text <ruby>日本<rt>にほん</rt></ruby>は
RubyExample ==
    <<60, 114, 117, 98, 121, 62, 26085, 26412, 60, 114, 116, 62,
      12395, 12411, 12435, 60, 47, 114, 116, 62, 60, 47, 114, 117,
      98, 121, 62, 12399>>

SpeechChars == {Lt, Gt, 97}

\* the texts passed to generateSpeech
SpeechTexts ==
    {RubyExample} \cup UNION {[1..k -> SpeechChars] : k \in 0..MaxTextLen}

Langs == {"jp", "en", "zh"}

\* the rest of a match of <[^>]*>? after its <: characters other than >,
\* then a > if there is one
RECURSIVE SkipTag(_)
SkipTag(text) ==
    IF text = <<>> THEN <<>>
    ELSE IF Head(text) = Gt THEN Tail(text) ELSE SkipTag(Tail(text))

\* text.replace(/<[^>]*>?/gm, '')
RECURSIVE StripTags(_)
StripTags(text) ==
    IF text = <<>> THEN <<>>
    ELSE IF Head(text) = Lt THEN StripTags(SkipTag(Tail(text)))
    ELSE <<Head(text)>> \o StripTags(Tail(text))

VoiceName(lang) == IF lang = "jp" THEN "Kore" ELSE IF lang = "en" THEN "Fenrir" ELSE "Puck"

\* getClient throws when no client was built and no key is set
getClientThrows == ~apiKey

\* a call as its caller sees it: the operation and its arguments, the
\* request sent to the backend if one was sent, and how the promise settled
Observed(op, text, lang, sent, settled, value) ==
    Some([op |-> op, text |-> text, lang |-> lang, sent |-> sent,
          settled |-> settled, value |-> value])

\* what the backend does with a request
Responses == {"payload", "noPayload", "throws"}

analyzeWord(q) ==
    /\ \E r \in Responses :
          call' = IF getClientThrows
                  THEN Observed("analyzeWord", q, "", None, "rejected", ApiKeyMissing)
                  ELSE Observed("analyzeWord", q, "", Some([model |-> "gemini-2.5-flash", text |-> q]),
                                IF r = "payload" THEN "fulfilled" ELSE "rejected",
                                IF r = "payload" THEN "WordData"
                                ELSE IF r = "noPayload" THEN "No text response from Gemini"
                                ELSE "request failed")
    /\ lastOp' = "service"
    /\ UNCHANGED <<mounted, blob, session, history, chains, now, apiKey, csv>>

analyzeSentence(q) ==
    /\ \E r \in Responses :
          call' = IF getClientThrows
                  THEN Observed("analyzeSentence", q, "", None, "rejected", ApiKeyMissing)
                  ELSE Observed("analyzeSentence", q, "", Some([model |-> "gemini-2.5-flash", text |-> q]),
                                IF r = "payload" THEN "fulfilled" ELSE "rejected",
                                IF r = "payload" THEN "SentenceData"
                                ELSE IF r = "noPayload" THEN "No text response from Gemini"
                                ELSE "request failed")
    /\ lastOp' = "service"
    /\ UNCHANGED <<mounted, blob, session, history, chains, now, apiKey, csv>>

\* generateImage as a call of the service: getClient is called inside the
\* try block, whose catch returns null
CallGenerateImage(word) ==
    /\ \E r \in Responses :
          call' = IF getClientThrows
                  THEN Observed("generateImage", word, "", None, "fulfilled", "null")
                  ELSE Observed("generateImage", word, "",
                                Some([model |-> "gemini-2.5-flash-image", text |-> word]),
                                "fulfilled",
                                IF r = "payload" THEN "dataUri" ELSE "null")
    /\ lastOp' = "service"
    /\ UNCHANGED <<mounted, blob, session, history, chains, now, apiKey, csv>>

\* generateSpeech: the text is cleaned, then getClient is called inside the
\* try block, whose catch logs and returns
generateSpeech(text, lang) ==
    /\ LET cleanText == StripTags(text)
           voiceName == VoiceName(lang)
       IN call' = IF getClientThrows
                  THEN Observed("generateSpeech", text, lang, None, "fulfilled", "undefined")
                  ELSE Observed("generateSpeech", text, lang,
                                Some([model |-> "gemini-2.5-flash-preview-tts",
                                      text |-> cleanText, voice |-> voiceName]),
                                "fulfilled", "undefined")
    /\ lastOp' = "service"
    /\ UNCHANGED <<mounted, blob, session, history, chains, now, apiKey, csv>>

InitService ==
    /\ mounted = FALSE
    /\ blob = Absent
    /\ query = <<>>
    /\ currentData = None
    /\ currentImage = None
    /\ loadingState = "IDLE"
    /\ error = None
    /\ history = <<>>
    /\ chains = [c \in Sids |-> NoChain]
    /\ now = HistoryCap
    /\ lastOp = "other"
    /\ apiKey \in BOOLEAN
    /\ call = None
    /\ csv = None

NextService ==
    \/ \E q \in {Plain} : analyzeWord(q)
    \/ \E q \in {Plain} : analyzeSentence(q)
    \/ \E w \in {Plain} : CallGenerateImage(w)
    \/ \E text \in SpeechTexts, lang \in Langs : generateSpeech(text, lang)

SpecService == InitService /\ [][NextService]_vars

-----------------------------------------------------------------------------
(* Properties *)

\* the step in which the handleSearch invocation c inserts its item
Inserts(c) == chains[c].pc = "image" /\ chains'[c].pc = "done"

Jp(item) == item.data.coreWord.jp
En(item) == item.data.coreWord.en

Matches(item, data) ==
    item.data.coreWord.jp = data.coreWord.jp \/ item.data.coreWord.en = data.coreWord.en

\* no two items of h share a coreWord.jp and no two share a coreWord.en
UniqueKeys(h) ==
    /\ Cardinality({Jp(h[i]) : i \in 1..Len(h)}) = Len(h)
    /\ Cardinality({En(h[i]) : i \in 1..Len(h)}) = Len(h)

\* C1: an insert puts the new item N at the head and leaves no other item
\* that shares coreWord.jp or coreWord.en with N (either field alone is
\* enough), and in every reachable state no two history items share a
\* coreWord.jp and no two share a coreWord.en.
C1_DedupOnEitherField ==
    /\ [](UniqueKeys(history))
    /\ [][\A c \in Sids : Inserts(c) =>
            LET N == chains[c].data[1]
            IN /\ Len(history') >= 1
               /\ history'[1].data = N
               /\ \A k \in 2..Len(history') : ~Matches(history'[k], N)
               /\ \A i \in 1..Len(history) :
                     Matches(history[i], N) =>
                        \A k \in 2..Len(history') : history'[k] # history[i]]_vars

\* C1 witness: the record (jp 1, en 2) was inserted into the stored history
\* of 50; stored item 1, which shares only its coreWord.jp, and stored item
\* 2, which shares only its coreWord.en, are gone and stored item 3 is now
\* the oldest of 49.
C1_Witness ==
    /\ lastOp = "image"
    /\ Len(history) = HistoryCap - 1
    /\ Jp(history[1]) = Word(1)
    /\ En(history[1]) = Word(2)
    /\ history[2] = StoredItem(HistoryCap)
    /\ history[HistoryCap - 1] = StoredItem(3)

\* C2: the history never holds more than 50 items.
C2_AtMostFifty == Len(history) <= HistoryCap

\* C2 witness: an insert was made and the history is full.
C2_Witness ==
    /\ lastOp = "image"
    /\ Len(history) = HistoryCap
    /\ history[1].timestamp > HistoryCap

\* the existing items that share neither coreWord.jp nor coreWord.en with N
Unmatched(h, N) == {i \in 1..Len(h) : ~Matches(h[i], N)}

ShiftsByOne(old, new) ==
    /\ Len(new) = Len(old)
    /\ \A i \in 1..(Len(old) - 1) : new[i + 1] = old[i]

\* C3 as claimed: every insert into a history of 50 items drops exactly the
\* oldest item and keeps the other 49.
C3_FullInsertDropsOldest ==
    [][\A c \in Sids :
          Inserts(c) /\ Len(history) = HistoryCap => ShiftsByOne(history, history')]_vars

\* C3 as amended: an insert into a history of 50 items of an item that shares
\* neither coreWord.jp nor coreWord.en with an existing item drops exactly
\* the oldest item and keeps the other 49; an insert of an item that shares
\* one removes the items it shares it with and drops no other item.
C3_FullInsertDropsOldestUnlessDuplicate ==
    [][\A c \in Sids :
          Inserts(c) /\ Len(history) = HistoryCap =>
             LET N == chains[c].data[1]
                 U == Unmatched(history, N)
             IN IF U = 1..Len(history)
                THEN ShiftsByOne(history, history')
                ELSE /\ Len(history') = 1 + Cardinality(U)
                     /\ {history[i] : i \in U} \subseteq
                           {history'[k] : k \in 2..Len(history')}]_vars

\* C3 witness: the record (jp 101, en 101), which no stored item shares a
\* field with, was inserted into the stored history of 50: stored item 1 is
\* gone, stored items 50 down to 2 follow the new item.
C3_Witness ==
    /\ lastOp = "image"
    /\ Len(history) = HistoryCap
    /\ Jp(history[1]) = Word(101)
    /\ history[2] = StoredItem(HistoryCap)
    /\ history[HistoryCap] = StoredItem(2)

NonIncreasing(h) == \A i \in 1..(Len(h) - 1) : h[i].timestamp >= h[i + 1].timestamp

StrictlyDecreasing(h) == \A i \in 1..(Len(h) - 1) : h[i].timestamp > h[i + 1].timestamp

\* the items of new after its head are items of old, in the order of old
KeepsOrder(old, new) ==
    LET survivors == {new[k] : k \in 2..Len(new)}
        IsSurvivor(item) == item \in survivors
    IN Tail(new) = SelectSeq(old, IsSurvivor)

\* C4: the history lists its items most recently inserted first, the
\* surviving older items in their former order; its timestamps never
\* increase down the list, and they strictly decrease as long as every insert
\* reads a later clock value than the one before.
C4_ReverseInsertionOrder ==
    /\ [](NonIncreasing(history))
    /\ [][\A c \in Sids : Inserts(c) =>
            /\ Len(history') >= 1
            /\ history'[1].data = chains[c].data[1]
            /\ history'[1].timestamp = now'
            /\ KeepsOrder(history, history')
            /\ (now' > now /\ StrictlyDecreasing(history)) => StrictlyDecreasing(history')]_vars

\* C4 witness: two items inserted in this session head the list, the later
\* one first.
C4_Witness ==
    /\ Len(history) >= 2
    /\ history[1].timestamp > history[2].timestamp
    /\ history[2].timestamp > HistoryCap

\* C5 as claimed: when the image generation of a submission fails, the
\* session becomes Complete and not Error, the record is inserted with no
\* imageUrl, and the submission's record, where it is the one displayed,
\* is displayed with no image (other than an image that loadFromHistory
\* restored together with that same record).
C5_ImageFailureShowsNoImage ==
    [][\A c \in Sids :
          Inserts(c) /\ history'[1].imageUrl = None =>
             /\ loadingState' = "COMPLETE"
             /\ history'[1].data = chains[c].data[1]
             /\ currentData' = chains[c].data =>
                   \/ currentImage' = None
                   \/ \E i \in 1..Len(history) :
                         /\ Some(history[i].data) = currentData'
                         /\ history[i].imageUrl = currentImage']_vars

\* the step in which the analysis call of invocation c fails
AnalysisFails(c) ==
    /\ chains[c].pc = "analyze"
    /\ chains'[c].pc # "analyze"
    /\ chains'[c].data = None

\* C6: when the analysis call of a submission fails, the session goes to
\* Error with the user-facing message, that submission calls neither
\* generateImage nor analyzeWord again, and the history and the persisted
\* blob stay as they were.
C6_AnalysisFailureGoesToError ==
    [][\A c \in Sids : AnalysisFails(c) =>
          /\ loadingState' = "ERROR"
          /\ error' = Some(ErrorMessage)
          /\ chains'[c].pc = "failed"
          /\ \A b \in Sids \ {c} : chains'[b] = chains[b]
          /\ history' = history
          /\ blob' = blob]_vars

\* C6 witness: an analysis has failed and the session shows the message.
C6_Witness ==
    /\ loadingState = "ERROR"
    /\ error = Some(ErrorMessage)
    /\ \E c \in Sids : chains[c].pc = "failed"

\* a string of white space only, or the empty string
IsBlank(q) == \A i \in 1..Len(q) : q[i] \in WhiteSpace

\* C7: with an empty or whitespace-only query in Idle a submit makes no
\* transition: no session field changes and no backend call is made.
C7_BlankQueryIgnored ==
    (mounted /\ loadingState = "IDLE" /\ IsBlank(query)) => ~ENABLED Submit

\* C7 witness: Idle, the query typed is a single space, and a submission
\* could still be started.
C7_Witness ==
    /\ mounted
    /\ loadingState = "IDLE"
    /\ query = <<0>>
    /\ NextSid \in Sids

\* C8: while the session is Analyzing or GeneratingImage a submit starts no
\* analysis call and changes no session state.
C8_SubmitIgnoredWhileBusy ==
    (mounted /\ Busy) => ~ENABLED Submit

\* C8 witness: a lookup is in flight, the query is not blank, and a
\* submission could still be started.
C8_Witness ==
    /\ Busy
    /\ ~IsBlank(query)
    /\ NextSid \in Sids

\* C9: loadFromHistory(item) makes the session Complete with the item's
\* record and image, from any state, and changes neither the calls in flight
\* nor the history nor the persisted blob.
C9_LoadFromHistoryRestores ==
    [][lastOp' = "select" =>
          /\ loadingState' = "COMPLETE"
          /\ \E i \in 1..Len(history) :
                /\ currentData' = Some(history[i].data)
                /\ currentImage' = history[i].imageUrl
          /\ chains' = chains
          /\ history' = history
          /\ blob' = blob]_vars

\* C9 witness: loadFromHistory has run while a lookup was in flight and
\* replaced an image on display by no image.
C9_Witness ==
    /\ lastOp = "select"
    /\ loadingState = "COMPLETE"
    /\ currentImage = None
    /\ \E c \in Sids : InFlight(c)

\* C10 as claimed: when two submissions were in flight together and the last
\* of them ends with its insert, the record and the image on display are the
\* ones of that submission.
C10_LastResolvedWins ==
    [][\A c \in Sids :
          (/\ Inserts(c)
           /\ chains[c].concurrent # {}
           /\ \A b \in Sids : ~InFlight(b)') =>
             /\ currentData' = chains[c].data
             /\ currentImage' = history'[1].imageUrl]_vars

\* the history holds only items inserted in this session
OnlyThisSession(h) == \A i \in 1..Len(h) : h[i].timestamp > HistoryCap

EndedChains == {c \in Sids : chains[c].pc = "done"}

\* C11: when nothing is persisted or the persisted text is not JSON, the
\* load leaves the history empty and the session Idle with no error; the
\* session can then be used (a query can be typed and submitted), and the
\* history from then on holds only what this session inserted, the first
\* insert giving a history of one item.
C11_LoadToleratesAbsentAndCorrupt ==
    /\ [][(~mounted /\ mounted' /\ blob.kind \in {"absent", "corrupt"}) =>
            /\ history' = <<>>
            /\ blob' = Json(<<>>)
            /\ error' = None
            /\ loadingState' = "IDLE"
            /\ (ENABLED (\E q \in TypedQueries : SetQuery(q)))']_vars
    /\ (blob.kind \in {"absent", "corrupt"}) =>
          [](/\ OnlyThisSession(history)
             /\ Len(history) <= Cardinality(EndedChains)
             /\ (mounted /\ ~Busy /\ ~IsBlank(query) /\ NextSid \in Sids) => ENABLED Submit)

\* C11 witness: the load effect has just met a text that is not JSON; the
\* history is empty and no error is shown.
C11_Witness ==
    /\ mounted
    /\ lastOp = "corrupt"
    /\ history = <<>>
    /\ error = None

\* the nine texts of a history item that the export writes as columns
Fields(h) ==
    <<ToISOString(h.timestamp),
      h.data.inputWord,
      h.data.coreWord.jp,
      h.data.coreWord.en,
      h.data.coreWord.zh,
      h.data.pronunciation.jp,
      h.data.pronunciation.en,
      h.data.definitions.jp,
      h.data.definitions.en>>

Least(S) == CHOOSE x \in S : \A y \in S : x <= y

\* "" inside a quoted field stands for one double quote
RECURSIVE Unescape(_)
Unescape(text) ==
    IF text = <<>> THEN <<>>
    ELSE IF Head(text) = Quote /\ Len(text) >= 2 /\ text[2] = Quote
         THEN <<Quote>> \o Unescape(Tail(Tail(text)))
         ELSE <<Head(text)>> \o Unescape(Tail(text))

\* the position of the next comma or line feed from position i on, or the
\* position after the end of the text
FieldEnd(text, i) ==
    LET S == {j \in i..Len(text) : text[j] \in {Comma, LineFeed}}
    IN IF S = {} THEN Len(text) + 1 ELSE Least(S)

\* the position of the double quote that closes the quoted field opened at
\* position i: the first double quote after i that is not part of a "",
\* or the position after the end of the text
Closing(text, i) ==
    LET S == {j \in (i + 1)..Len(text) :
                 /\ text[j] = Quote
                 /\ Cardinality({m \in (i + 1)..j : text[m] = Quote}) % 2 = 1
                 /\ (j = Len(text) \/ text[j + 1] # Quote)}
    IN IF S = {} THEN Len(text) + 1 ELSE Least(S)

\* A CSV reader (RFC 4180), reading the field that starts at position i: a
\* field that starts with a double quote runs to its closing double quote
\* (and on to the next separator); any other field runs to the next comma
\* or line feed.  A comma ends a field, a line feed ends a row.
RECURSIVE ParseCsv(_, _, _, _)
ParseCsv(text, i, row, rows) ==
    LET quoted == i <= Len(text) /\ text[i] = Quote
        c      == Closing(text, i)
        e      == IF quoted THEN FieldEnd(text, c + 1) ELSE FieldEnd(text, i)
        field  == IF quoted
                  THEN Unescape(SubSeq(text, i + 1, c - 1)) \o SubSeq(text, c + 1, e - 1)
                  ELSE SubSeq(text, i, e - 1)
    IN IF e > Len(text) THEN rows \o <<row \o <<field>>>>
       ELSE IF text[e] = Comma THEN ParseCsv(text, e + 1, row \o <<field>>, rows)
       ELSE ParseCsv(text, e + 1, <<>>, rows \o <<row \o <<field>>>>)

ReadCsv(text) == ParseCsv(text, 1, <<>>, <<>>)

\* C12 as claimed: a CSV reader splits every row of the export into nine
\* fields and recovers, for every history item and every column, the text
\* the item holds; a text with a comma or a double quote is written wrapped
\* in double quotes with its double quotes doubled.
C12_CsvRoundTrip ==
    csv # None =>
       /\ ReadCsv(csv[1]) = <<Headers>> \o [i \in 1..Len(history) |-> Fields(history[i])]
       /\ \A i \in 1..Len(history) : \A k \in 1..9 :
              (\E n \in 1..Len(Fields(history[i])[k]) :
                    Fields(history[i])[k][n] \in {Comma, Quote})
                 => Row(history[i])[k] = Quoted(Fields(history[i])[k])

\* the text 日本は
SpokenForm == <<26085, 26412, 12399>>

\* C13 as claimed: the text generateSpeech sends to the backend holds no
\* tag markup and only the spoken form of its argument: for
\* <ruby>日本<rt>にほん</rt></ruby>は it is 日本は.
C13_SpeechTextIsSpokenForm ==
    (call # None /\ call[1].op = "generateSpeech" /\ call[1].sent # None) =>
       /\ \A n \in 1..Len(call[1].sent[1].text) : call[1].sent[1].text[n] # Lt
       /\ call[1].text = RubyExample => call[1].sent[1].text = SpokenForm

\* C14 as claimed: without an API key every call of the service is rejected
\* with the configuration error.
C14_MissingKeyFailsEveryCall ==
    (~apiKey /\ call # None) =>
       /\ call[1].settled = "rejected"
       /\ call[1].value = ApiKeyMissing

\* the record carries every field the response schema requires
HasRequired(data) == Required \subseteq DOMAIN data

\* C15 as claimed: the session's current record and every record in the
\* history carry all required fields.
C15_OnlyFullRecords ==
    /\ currentData # None => HasRequired(currentData[1])
    /\ \A i \in 1..Len(history) : HasRequired(history[i].data)

\* C16 as claimed: whenever the session is Complete and shows a record with
\* an image, the image is the one of that record: the history holds the
\* record with that image (an insert and loadFromHistory both leave it so).
C16_ImageBelongsToRecord ==
    (loadingState = "COMPLETE" /\ currentData # None /\ currentImage # None) =>
       \E i \in 1..Len(history) :
          /\ history[i].data = currentData[1]
          /\ history[i].imageUrl = currentImage

\* C17 as claimed: the error message is set exactly when the session state
\* is Error.
C17_ErrorIffErrorState ==
    (error # None) <=> (loadingState = "ERROR")

Settled == {"COMPLETE", "ERROR"}

\* C18: if every backend call that was issued resolves, every submission
\* that was accepted ends, and the step that ends it leaves the session
\* Complete or Error; an Analyzing or GeneratingImage session becomes
\* Complete or Error; and the session is Analyzing or GeneratingImage only
\* while a backend call is in flight whose resolution can still come.
C18_SubmissionsSettle ==
    /\ \A c \in Sids : (chains[c].pc = "analyze") ~> (chains[c].pc \in {"done", "failed"})
    /\ Busy ~> (loadingState \in Settled)
    /\ [][\A c \in Sids :
            (InFlight(c) /\ ~InFlight(c)') => loadingState' \in Settled]_vars
    /\ [](Busy =>
            \E c \in Sids :
               /\ InFlight(c)
               /\ ENABLED (AnalysisSettles(c) \/ ImageSettles(c)))

\* C18 witness: two submissions were accepted, one ended with its insert,
\* one in the catch block; no call is in flight.
C18_Witness ==
    /\ \E c \in Sids : chains[c].pc = "done"
    /\ \E c \in Sids : chains[c].pc = "failed"
    /\ \A c \in Sids : ~InFlight(c)
    /\ loadingState \in Settled

=============================================================================
